---- MODULE Spec2Model ----
(***************************************************************************)
(* Constant-auxiliary-space depth-first traversal over trees whose child   *)
(* slots are tagged pointers (array_tree.rs, binary_tree.rs,               *)
(* tagged_ptr.rs).  Node i lives at the even address 2*i, the null pointer *)
(* is address 0, and a TaggedPtr is the address with the seen tag in its   *)
(* low bit.  One loop iteration of NodeIter::next / NodeIter::drop is one  *)
(* step of the model.                                                      *)
(***************************************************************************)
EXTENDS Integers, Sequences, FiniteSets

\* ------------------------------------------------------------------ bounds
MaxNodes == 3
MaxArity == 3
MaxIters == 2
MaxAddr == 100

\* A loop that ran longer than this is cut off; every bound the properties
\* state on the number of loop steps is strictly smaller.
StepCap == MaxNodes * (MaxArity + 1) + 3

VARIABLES
    kind,       \* "array" (array_tree.rs) or "binary" (binary_tree.rs)
    N,          \* the const generic arity of Tree<T, N>
    root,       \* Tree::root
    val,        \* Node::val, by node address
    children,   \* Node::children of array_tree.rs, by node address and slot
    left,       \* Node::left of binary_tree.rs, by node address
    right,      \* Node::right of binary_tree.rs, by node address
    prev,       \* NodeIter::prev of the live iterator
    cur,        \* NodeIter::cur of the live iterator
    ret,        \* the const generic RETURN_ON_VISIT of the live iterator
    pc,         \* where the caller is: see the actions
    freed,      \* the nodes handed to Box::from_raw, in order
    orig,       \* history: the child references the tree was built with
    yields,     \* history: the nodes the live iterator has yielded
    exhausted,  \* history: the live iterator has returned None
    iters,      \* history: how many iterators have been discarded
    lastRun,    \* history: what the iterator discarded last had done
    forgotten,  \* history: an iterator was forgotten without its Drop running
    hidden,     \* history: nodes no untagged path led to when it was forgotten
    atRest,     \* history: the tree was at rest when the live walk began
    steps,      \* history: loop iterations run by the live iterator
    raw,        \* the pointer a TaggedPtr under test was made from
    tagged,     \* a TaggedPtr under test (tagged_ptr.rs on its own)
    iter2,      \* prev and cur of a second NodeIter over the same nodes
    yields2,    \* history: the nodes the second NodeIter has yielded
    modes       \* where the owners of two NodeIters are, and (history)
                \* whether loop iterations of the two were interleaved

vars == << kind, N, root, val, children, left, right, prev, cur, ret, pc,
           freed, orig, yields, exhausted, iters, lastRun, forgotten, hidden,
           atRest, steps, raw, tagged, iter2, yields2, modes >>

\* The variables of the tagged pointer exercised on its own.
tpVars == << raw, tagged >>

\* The variables of a second NodeIter beside the live one.
twoVars == << iter2, yields2, modes >>

\* --------------------------------------------------------- tagged_ptr.rs
SEEN_BIT == 1

\* addr & SEEN_BIT and addr & !SEEN_BIT on a one-bit mask
BitAnd(addr) == addr % (2 * SEEN_BIT)
BitAndNot(addr) == addr - BitAnd(addr)
BitOr(addr) == BitAndNot(addr) + SEEN_BIT

from_untagged(ptr) == ptr

as_untagged(p) == BitAndNot(p)

is_seen(p) == BitAnd(p) = SEEN_BIT

\* Mutant: the tag is added to the address, not or-ed into it.
seen_adds(p) == p + SEEN_BIT

seen(p) == BitOr(p)

unseen(p) == BitAndNot(p)

\* ------------------------------------------------------------- the heap
null == 0

Addr(i) == 2 * i

Nodes == DOMAIN orig

Slots == 0 .. (N - 1)

RangeOf(s) == { s[i] : i \in DOMAIN s }

FreedSet == RangeOf(freed)

\* The nodes a walk from n finds through the slots that carry no seen tag.
RECURSIVE ReachUnseen(_, _, _)
ReachUnseen(ch, n, fuel) ==
    IF n = null \/ fuel = 0 THEN {}
    ELSE {n} \cup UNION { ReachUnseen(ch, as_untagged(ch[n][i]), fuel - 1) :
                            i \in { j \in DOMAIN ch[n] : ~is_seen(ch[n][j]) } }

\* ------------------------------------------------- building a tree at rest
\* Node::alloc: every node owns the children handed to it, each in one slot;
\* node j > 1 is the child in slot f[j][2] of the node f[j][1] built with it.
TreeShapes(n, a) ==
    { f \in [2 .. n -> (1 .. n) \X (0 .. (a - 1))] :
        /\ \A j \in 2 .. n : f[j][1] < j
        /\ \A j, l \in 2 .. n : j # l => f[j] # f[l] }

alloc(f, n, a) ==
    [x \in { Addr(i) : i \in 1 .. n } |->
        [s \in 0 .. (a - 1) |->
            IF \E j \in 2 .. n : f[j] = << x \div 2, s >>
            THEN from_untagged(Addr(CHOOSE j \in 2 .. n :
                                        f[j] = << x \div 2, s >>))
            ELSE from_untagged(null)]]

\* Tree::new: the root is the first node built, or null for the empty tree.
TreeNew(n) == IF n = 0 THEN null ELSE Addr(1)

\* The values stored in the nodes; two nodes may hold the same value.
ValueMap(n) == [x \in { Addr(i) : i \in 1 .. n } |-> (x \div 2) % 2]

\* -------------------------------------------- array_tree.rs: NodeIter
\* Mutant: the scan skips a slot only when it is tagged and holds null, so
\* it stops at a tagged slot that holds a reference.
first_unvisited_follows_tagged(slots) ==
    IF \E i \in DOMAIN slots : ~is_seen(slots[i]) \/ as_untagged(slots[i]) # null
    THEN CHOOSE i \in DOMAIN slots :
            /\ ~is_seen(slots[i]) \/ as_untagged(slots[i]) # null
            /\ \A j \in DOMAIN slots :
                  j < i => is_seen(slots[j]) /\ as_untagged(slots[j]) = null
    ELSE N

\* Mutant: the scan runs from the last slot (rposition for position).
first_unvisited_rposition(slots) ==
    IF \E i \in DOMAIN slots : ~is_seen(slots[i])
    THEN CHOOSE i \in DOMAIN slots :
            /\ ~is_seen(slots[i])
            /\ \A j \in DOMAIN slots : j > i => is_seen(slots[j])
    ELSE N

\* children.iter().position(|p| !p.is_seen()).unwrap_or(N)
first_unvisited(slots) ==
    IF \E i \in DOMAIN slots : ~is_seen(slots[i])
    THEN CHOOSE i \in DOMAIN slots :
            /\ ~is_seen(slots[i])
            /\ \A j \in DOMAIN slots : j < i => is_seen(slots[j])
    ELSE N

\* Mutant: the loop clears the tag of each slot where it stands, moving
\* nothing down (children[i] = children[i].unseen()).
RECURSIVE ShiftDownInPlace(_, _, _)
ShiftDownInPlace(slots, i, last) ==
    IF i >= last THEN slots
    ELSE ShiftDownInPlace([slots EXCEPT ![i] = unseen(slots[i])], i + 1, last)

\* for i in 0..(first_unvisited - 1) { children[i] = children[i + 1].unseen() }
RECURSIVE ShiftDown(_, _, _)
ShiftDown(slots, i, last) ==
    IF i >= last THEN slots
    ELSE ShiftDown([slots EXCEPT ![i] = unseen(slots[i + 1])], i + 1, last)

\* Mutant: the last converted slot is not given back the child in prev.
AscendNoLastSlot(ch, p, c, k) ==
    IF k = 0
    THEN [children |-> ch, prev |-> c, cur |-> p, k |-> k]
    ELSE LET parent == ch[c][0]
             shifted == ShiftDown(ch[c], 0, k - 1)
         IN  [children |-> [ch EXCEPT ![c] = shifted],
              prev |-> c, cur |-> as_untagged(parent), k |-> k]

\* Mutant: no special case for a node none of whose slots was converted.
AscendNoLeafCase(ch, p, c, k) ==
    LET parent == IF N = 0 THEN from_untagged(p) ELSE ch[c][0]
        shifted == ShiftDown(ch[c], 0, k - 1)
        rebuilt == IF k = 0 THEN shifted
                   ELSE [shifted EXCEPT ![k - 1] = unseen(from_untagged(p))]
    IN  [children |-> [ch EXCEPT ![c] = rebuilt],
         prev |-> c, cur |-> as_untagged(parent), k |-> k]

\* Mutant: the slots slide down with their seen tags (no unseen()).
AscendNoUnseen(ch, p, c, k) ==
    IF k = 0
    THEN [children |-> ch, prev |-> c, cur |-> p, k |-> k]
    ELSE LET parent == ch[c][0]
             shifted == [i \in DOMAIN ch[c] |->
                            IF i < k - 1 THEN ch[c][i + 1] ELSE ch[c][i]]
             rebuilt == [shifted EXCEPT ![k - 1] = unseen(from_untagged(p))]
         IN  [children |-> [ch EXCEPT ![c] = rebuilt],
              prev |-> c, cur |-> as_untagged(parent), k |-> k]

\* Mutant: the ascent moves cur to the parent and leaves prev as it was.
AscendKeepsPrev(ch, p, c, k) ==
    IF k = 0
    THEN [children |-> ch, prev |-> p, cur |-> p, k |-> k]
    ELSE LET parent == ch[c][0]
             shifted == ShiftDown(ch[c], 0, k - 1)
             rebuilt == [shifted EXCEPT ![k - 1] = unseen(from_untagged(p))]
         IN  [children |-> [ch EXCEPT ![c] = rebuilt],
              prev |-> p, cur |-> as_untagged(parent), k |-> k]

\* Mutant: a node none of whose slots was converted is left standing (the
\* shortcut sets prev and forgets to move cur).
AscendLeafStays(ch, p, c, k) ==
    IF k = 0
    THEN [children |-> ch, prev |-> c, cur |-> c, k |-> k]
    ELSE LET parent == ch[c][0]
             shifted == ShiftDown(ch[c], 0, k - 1)
             rebuilt == [shifted EXCEPT ![k - 1] = unseen(from_untagged(p))]
         IN  [children |-> [ch EXCEPT ![c] = rebuilt],
              prev |-> c, cur |-> as_untagged(parent), k |-> k]

\* The branch that goes up: rebuild the slots of c and return to its parent.
Ascend(ch, p, c, k) ==
    IF k = 0
    THEN [children |-> ch, prev |-> c, cur |-> p, k |-> k]
    ELSE LET parent == ch[c][0]
             shifted == ShiftDown(ch[c], 0, k - 1)
             rebuilt == [shifted EXCEPT ![k - 1] = unseen(from_untagged(p))]
         IN  [children |-> [ch EXCEPT ![c] = rebuilt],
              prev |-> c, cur |-> as_untagged(parent), k |-> k]

\* Mutant: the back-link is stored without the seen tag.
DescendNoTag(ch, p, c, k) ==
    LET child_to_visit == as_untagged(ch[c][k])
        written == [ch EXCEPT ![c][k] = from_untagged(p)]
    IN  IF child_to_visit = null
        THEN [children |-> written, prev |-> child_to_visit, cur |-> c, k |-> k]
        ELSE [children |-> written, prev |-> c, cur |-> child_to_visit, k |-> k]

\* Mutant: stepping over a null child leaves prev as it was.
DescendKeepsPrevOnNull(ch, p, c, k) ==
    LET child_to_visit == as_untagged(ch[c][k])
        written == [ch EXCEPT ![c][k] = seen(from_untagged(p))]
    IN  IF child_to_visit = null
        THEN [children |-> written, prev |-> p, cur |-> c, k |-> k]
        ELSE [children |-> written, prev |-> c, cur |-> child_to_visit, k |-> k]

\* Mutant: the back-link always goes into slot 0.
DescendWritesSlotZero(ch, p, c, k) ==
    LET child_to_visit == as_untagged(ch[c][k])
        written == [ch EXCEPT ![c][0] = seen(from_untagged(p))]
    IN  IF child_to_visit = null
        THEN [children |-> written, prev |-> child_to_visit, cur |-> c, k |-> k]
        ELSE [children |-> written, prev |-> c, cur |-> child_to_visit, k |-> k]

\* Mutant: a null child is stepped over without its slot being converted.
DescendSkipsNullWrite(ch, p, c, k) ==
    LET child_to_visit == as_untagged(ch[c][k])
        written == [ch EXCEPT ![c][k] = seen(from_untagged(p))]
    IN  IF child_to_visit = null
        THEN [children |-> ch, prev |-> child_to_visit, cur |-> c, k |-> k]
        ELSE [children |-> written, prev |-> c, cur |-> child_to_visit, k |-> k]

\* The branch that visits child k: slot k becomes the back-link.
Descend(ch, p, c, k) ==
    LET child_to_visit == as_untagged(ch[c][k])
        written == [ch EXCEPT ![c][k] = seen(from_untagged(p))]
    IN  IF child_to_visit = null
        THEN [children |-> written, prev |-> child_to_visit, cur |-> c, k |-> k]
        ELSE [children |-> written, prev |-> c, cur |-> child_to_visit, k |-> k]

\* One iteration of the loop of NodeIter::next on a non-null cur.
NextBody(ch, p, c) ==
    LET k == first_unvisited(ch[c])
    IN  IF k < N THEN Descend(ch, p, c, k) ELSE Ascend(ch, p, c, k)

\* Mutant: the release climbs to the parent without rebuilding the slots.
DropBodyNoRestore(ch, p, c) ==
    LET k == first_unvisited(ch[c])
    IN  [children |-> ch, prev |-> c,
         cur |-> IF k = 0 THEN p ELSE as_untagged(ch[c][0]), k |-> k]

\* Mutant: the release runs the loop body of next, visiting the children
\* that are left before it goes up.
DropBodyDescends(ch, p, c) == NextBody(ch, p, c)

\* One iteration of the loop of NodeIter::drop on a non-null cur.
DropBody(ch, p, c) == Ascend(ch, p, c, first_unvisited(ch[c]))

\* ------------------------------------------- binary_tree.rs: NodeIter
\* Mutant: the first visit steps into the left child even when it is null,
\* without pretending that the empty left subtree is finished.
BinNextBodyDescendsIntoNull(l, r, p, c) ==
    CASE ~is_seen(l[c]) /\ ~is_seen(r[c]) ->
                [left |-> [l EXCEPT ![c] = seen(from_untagged(p))], right |-> r,
                 prev |-> c, cur |-> as_untagged(l[c]), k |-> 0,
                 panic |-> FALSE]
          [] is_seen(l[c]) /\ ~is_seen(r[c]) ->
                LET old_right == as_untagged(r[c])
                    written == [r EXCEPT ![c] = seen(from_untagged(p))]
                IN  IF old_right = null
                    THEN [left |-> l, right |-> written, prev |-> old_right,
                          cur |-> c, k |-> 1, panic |-> FALSE]
                    ELSE [left |-> l, right |-> written, prev |-> c,
                          cur |-> old_right, k |-> 1, panic |-> FALSE]
          [] ~is_seen(l[c]) /\ is_seen(r[c]) ->
                [left |-> l, right |-> r, prev |-> p, cur |-> c,
                 k |-> 3, panic |-> TRUE]
          [] is_seen(l[c]) /\ is_seen(r[c]) ->
                [left |-> [l EXCEPT ![c] = unseen(r[c])],
                 right |-> [r EXCEPT ![c] = unseen(from_untagged(p))],
                 prev |-> c, cur |-> as_untagged(l[c]),
                 k |-> 2, panic |-> FALSE]

\* Mutant: the third visit restores the left slot and leaves the back-link
\* in the right slot as it was, tag included.
BinNextBodyKeepsRightTag(l, r, p, c) ==
    CASE ~is_seen(l[c]) /\ ~is_seen(r[c]) ->
                LET old_left == as_untagged(l[c])
                    written == [l EXCEPT ![c] = seen(from_untagged(p))]
                IN  IF old_left = null
                    THEN [left |-> written, right |-> r, prev |-> old_left,
                          cur |-> c, k |-> 0, panic |-> FALSE]
                    ELSE [left |-> written, right |-> r, prev |-> c,
                          cur |-> old_left, k |-> 0, panic |-> FALSE]
          [] is_seen(l[c]) /\ ~is_seen(r[c]) ->
                LET old_right == as_untagged(r[c])
                    written == [r EXCEPT ![c] = seen(from_untagged(p))]
                IN  IF old_right = null
                    THEN [left |-> l, right |-> written, prev |-> old_right,
                          cur |-> c, k |-> 1, panic |-> FALSE]
                    ELSE [left |-> l, right |-> written, prev |-> c,
                          cur |-> old_right, k |-> 1, panic |-> FALSE]
          [] ~is_seen(l[c]) /\ is_seen(r[c]) ->
                [left |-> l, right |-> r, prev |-> p, cur |-> c,
                 k |-> 3, panic |-> TRUE]
          [] is_seen(l[c]) /\ is_seen(r[c]) ->
                [left |-> [l EXCEPT ![c] = unseen(r[c])], right |-> r,
                 prev |-> c, cur |-> as_untagged(l[c]),
                 k |-> 2, panic |-> FALSE]

\* Mutant: the third visit gives the two children back in each other's slot.
BinNextBodySwapsRestore(l, r, p, c) ==
    CASE ~is_seen(l[c]) /\ ~is_seen(r[c]) ->
                LET old_left == as_untagged(l[c])
                    written == [l EXCEPT ![c] = seen(from_untagged(p))]
                IN  IF old_left = null
                    THEN [left |-> written, right |-> r, prev |-> old_left,
                          cur |-> c, k |-> 0, panic |-> FALSE]
                    ELSE [left |-> written, right |-> r, prev |-> c,
                          cur |-> old_left, k |-> 0, panic |-> FALSE]
          [] is_seen(l[c]) /\ ~is_seen(r[c]) ->
                LET old_right == as_untagged(r[c])
                    written == [r EXCEPT ![c] = seen(from_untagged(p))]
                IN  IF old_right = null
                    THEN [left |-> l, right |-> written, prev |-> old_right,
                          cur |-> c, k |-> 1, panic |-> FALSE]
                    ELSE [left |-> l, right |-> written, prev |-> c,
                          cur |-> old_right, k |-> 1, panic |-> FALSE]
          [] ~is_seen(l[c]) /\ is_seen(r[c]) ->
                [left |-> l, right |-> r, prev |-> p, cur |-> c,
                 k |-> 3, panic |-> TRUE]
          [] is_seen(l[c]) /\ is_seen(r[c]) ->
                [left |-> [l EXCEPT ![c] = unseen(from_untagged(p))],
                 right |-> [r EXCEPT ![c] = unseen(r[c])],
                 prev |-> c, cur |-> as_untagged(l[c]),
                 k |-> 2, panic |-> FALSE]

\* One iteration of the loop of NodeIter::next on a non-null cur; k is the
\* visit the node was on and panic the unreachable!() of (false, true).
BinNextBody(l, r, p, c) ==
    CASE ~is_seen(l[c]) /\ ~is_seen(r[c]) ->
                LET old_left == as_untagged(l[c])
                    written == [l EXCEPT ![c] = seen(from_untagged(p))]
                IN  IF old_left = null
                    THEN [left |-> written, right |-> r, prev |-> old_left,
                          cur |-> c, k |-> 0, panic |-> FALSE]
                    ELSE [left |-> written, right |-> r, prev |-> c,
                          cur |-> old_left, k |-> 0, panic |-> FALSE]
          [] is_seen(l[c]) /\ ~is_seen(r[c]) ->
                LET old_right == as_untagged(r[c])
                    written == [r EXCEPT ![c] = seen(from_untagged(p))]
                IN  IF old_right = null
                    THEN [left |-> l, right |-> written, prev |-> old_right,
                          cur |-> c, k |-> 1, panic |-> FALSE]
                    ELSE [left |-> l, right |-> written, prev |-> c,
                          cur |-> old_right, k |-> 1, panic |-> FALSE]
          [] ~is_seen(l[c]) /\ is_seen(r[c]) ->
                [left |-> l, right |-> r, prev |-> p, cur |-> c,
                 k |-> 3, panic |-> TRUE]
          [] is_seen(l[c]) /\ is_seen(r[c]) ->
                LET real_right == p
                    real_left == r[c]
                    parent == l[c]
                IN  [left |-> [l EXCEPT ![c] = unseen(real_left)],
                     right |-> [r EXCEPT ![c] = unseen(from_untagged(real_right))],
                     prev |-> c, cur |-> as_untagged(parent),
                     k |-> 2, panic |-> FALSE]

\* ------------------------------------------------------------------ Init
\* A tree at rest, built by Node::alloc and Tree::new, and no iterator.
Init ==
    \E kd \in {"array", "binary"}, a \in 0 .. MaxArity, n \in 0 .. MaxNodes :
      \E f \in TreeShapes(n, a) :
        /\ kd = "binary" => a = 2
        /\ kind = kd
        /\ N = a
        /\ root = TreeNew(n)
        /\ val = ValueMap(n)
        /\ orig = alloc(f, n, a)
        /\ children = IF kd = "array" THEN alloc(f, n, a) ELSE << >>
        /\ left = IF kd = "binary"
                  THEN [x \in DOMAIN alloc(f, n, a) |-> alloc(f, n, a)[x][0]]
                  ELSE << >>
        /\ right = IF kd = "binary"
                   THEN [x \in DOMAIN alloc(f, n, a) |-> alloc(f, n, a)[x][1]]
                   ELSE << >>
        /\ prev = null
        /\ cur = null
        /\ ret = 0
        /\ pc = "rest"
        /\ freed = << >>
        /\ yields = << >>
        /\ exhausted = FALSE
        /\ iters = 0
        /\ lastRun = [out |-> << >>, ex |-> FALSE]
        /\ forgotten = FALSE
        /\ hidden = {}
        /\ atRest = TRUE
        /\ steps = 0
        /\ raw = null
        /\ tagged = from_untagged(null)
        /\ iter2 = [prev |-> null, cur |-> null]
        /\ yields2 = << >>
        /\ modes = [a |-> "none", b |-> "none", mixed |-> FALSE]

\* --------------------------------------------------- array_tree.rs actions
\* Tree::dfs_iter_mut: a NodeIter<_, N, 0> at the root.  Explored on trees
\* no forgotten iterator has left in the middle of a traversal.
DfsIterMut ==
    /\ kind = "array" /\ pc = "rest" /\ ~forgotten
    /\ iters < MaxIters
    /\ prev' = null /\ cur' = root /\ ret' = 0
    /\ pc' = "idle"
    /\ yields' = << >> /\ exhausted' = FALSE /\ steps' = 0
    /\ UNCHANGED << tpVars, twoVars, kind, N, root, val, children, left, right, freed, orig,
                    iters, lastRun, forgotten, hidden, atRest >>

\* Mutant: next tests RETURN_ON_VISIT before it tests cur for null, handing
\* out the null cur of an empty tree as a node.
IterNextYieldsNull ==
    /\ kind = "array" /\ pc \in {"idle", "next"} /\ steps < StepCap
    /\ IF cur = null
       THEN /\ pc' = "idle" /\ yields' = Append(yields, cur)
            /\ steps' = steps + 1
            /\ UNCHANGED << children, prev, cur, exhausted >>
       ELSE LET r == NextBody(children, prev, cur)
            IN  /\ children' = r.children
                /\ prev' = r.prev
                /\ cur' = r.cur
                /\ steps' = steps + 1
                /\ IF r.k = ret
                   THEN yields' = Append(yields, cur) /\ pc' = "idle"
                   ELSE yields' = yields /\ pc' = "next"
                /\ UNCHANGED exhausted
    /\ UNCHANGED << tpVars, twoVars, kind, N, root, val, left, right, ret, freed, orig,
                    iters, lastRun, forgotten, hidden, atRest >>

\* Mutant: next compares with >= where the code has ==, handing a node out
\* on every visit from RETURN_ON_VISIT on.
IterNextYieldsFromVisit ==
    /\ kind = "array" /\ pc \in {"idle", "next"} /\ steps < StepCap
    /\ IF cur = null
       THEN /\ pc' = "idle" /\ exhausted' = TRUE
            /\ UNCHANGED << children, prev, cur, yields, steps >>
       ELSE LET r == NextBody(children, prev, cur)
            IN  /\ children' = r.children
                /\ prev' = r.prev
                /\ cur' = r.cur
                /\ steps' = steps + 1
                /\ IF r.k >= ret
                   THEN yields' = Append(yields, cur) /\ pc' = "idle"
                   ELSE yields' = yields /\ pc' = "next"
                /\ UNCHANGED exhausted
    /\ UNCHANGED << tpVars, twoVars, kind, N, root, val, left, right, ret, freed, orig,
                    iters, lastRun, forgotten, hidden, atRest >>

\* Mutant: a call of next on a null cur returns None and rewinds the
\* iterator to the root.
IterNextRewinds ==
    /\ kind = "array" /\ pc \in {"idle", "next"} /\ steps < StepCap
    /\ IF cur = null
       THEN /\ pc' = "idle" /\ exhausted' = TRUE
            /\ prev' = null /\ cur' = root
            /\ UNCHANGED << children, yields, steps >>
       ELSE LET r == NextBody(children, prev, cur)
            IN  /\ children' = r.children
                /\ prev' = r.prev
                /\ cur' = r.cur
                /\ steps' = steps + 1
                /\ IF r.k = ret
                   THEN yields' = Append(yields, cur) /\ pc' = "idle"
                   ELSE yields' = yields /\ pc' = "next"
                /\ UNCHANGED exhausted
    /\ UNCHANGED << tpVars, twoVars, kind, N, root, val, left, right, ret,
                    freed, orig, iters, lastRun, forgotten, hidden, atRest >>

\* DfsIterMut::next, one loop iteration of NodeIter::next at a time: the
\* call returns None on a null cur, and Some(cur) after the iteration whose
\* first_unvisited is RETURN_ON_VISIT.
IterNext ==
    /\ kind = "array" /\ pc \in {"idle", "next"} /\ steps < StepCap
    /\ IF cur = null
       THEN /\ pc' = "idle" /\ exhausted' = TRUE
            /\ UNCHANGED << children, prev, cur, yields, steps >>
       ELSE LET r == NextBody(children, prev, cur)
            IN  /\ children' = r.children
                /\ prev' = r.prev
                /\ cur' = r.cur
                /\ steps' = steps + 1
                /\ IF r.k = ret
                   THEN yields' = Append(yields, cur) /\ pc' = "idle"
                   ELSE yields' = yields /\ pc' = "next"
                /\ UNCHANGED exhausted
    /\ UNCHANGED << tpVars, twoVars, kind, N, root, val, left, right, ret, freed, orig,
                    iters, lastRun,
                    forgotten, hidden, atRest >>

\* Mutant: Drop for NodeIter repairs nothing, as in binary_tree.rs.
IterDropRepairsNothing ==
    /\ kind = "array" /\ pc = "idle"
    /\ pc' = "rest"
    /\ iters' = iters + 1
    /\ lastRun' = [out |-> yields, ex |-> exhausted]
    /\ UNCHANGED << tpVars, twoVars, kind, N, root, val, children, left, right, prev, cur, ret,
                    freed, orig, yields, exhausted, forgotten, hidden, atRest,
                    steps >>

\* Drop for NodeIter, one loop iteration at a time; the iterator is gone
\* when cur is null.
IterDrop ==
    /\ kind = "array" /\ pc \in {"idle", "release"}
    /\ pc = "release" => steps < StepCap
    /\ IF cur = null
       THEN /\ pc' = "rest"
            /\ iters' = iters + 1
            /\ lastRun' = [out |-> yields, ex |-> exhausted]
            /\ UNCHANGED << children, prev, cur, steps >>
       ELSE LET r == DropBody(children, prev, cur)
            IN  /\ children' = r.children
                /\ prev' = r.prev
                /\ cur' = r.cur
                /\ steps' = (IF pc = "idle" THEN 0 ELSE steps) + 1
                /\ pc' = "release"
                /\ UNCHANGED << iters, lastRun >>
    /\ UNCHANGED << tpVars, twoVars, kind, N, root, val, left, right, ret, freed, orig, yields,
                    exhausted, forgotten, hidden, atRest >>

\* mem::forget of the iterator: Drop for NodeIter does not run.
Forget ==
    /\ kind = "array" /\ pc = "idle"
    /\ pc' = "rest"
    /\ forgotten' = TRUE
    /\ hidden' = Nodes \ ReachUnseen(children, root, MaxNodes + 1)
    /\ iters' = iters + 1
    /\ lastRun' = [out |-> yields, ex |-> exhausted]
    /\ UNCHANGED << tpVars, twoVars, kind, N, root, val, children, left, right, prev, cur, ret,
                    freed, orig, yields, exhausted, atRest, steps >>

\* Mutant: Drop for Tree walks with NodeIter<_, N, 0>, freeing in pre-order.
TreeDropPreOrder ==
    /\ kind = "array" /\ pc = "rest"
    /\ prev' = null /\ cur' = root /\ ret' = 0
    /\ pc' = "destroy"
    /\ atRest' = (children = orig)
    /\ yields' = << >> /\ exhausted' = FALSE /\ steps' = 0
    /\ UNCHANGED << tpVars, twoVars, kind, N, root, val, children, left, right, freed, orig,
                    iters, lastRun, forgotten, hidden >>

\* Drop for Tree: a NodeIter<_, N, N> at the root.
TreeDrop ==
    /\ kind = "array" /\ pc = "rest"
    /\ prev' = null /\ cur' = root /\ ret' = N
    /\ pc' = "destroy"
    /\ atRest' = (children = orig)
    /\ yields' = << >> /\ exhausted' = FALSE /\ steps' = 0
    /\ UNCHANGED << tpVars, twoVars, kind, N, root, val, children, left, right, freed, orig,
                    iters, lastRun, forgotten, hidden >>

\* The for loop of Drop for Tree, one loop iteration of NodeIter::next at a
\* time; a yielded node is handed to Box::from_raw at once.  Reading a node
\* that was freed is undefined behaviour: the walk is stopped there.
DestroyStep ==
    /\ kind = "array" /\ pc = "destroy" /\ steps < StepCap
    /\ IF cur = null
       THEN /\ pc' = "dropped" /\ exhausted' = TRUE
            /\ UNCHANGED << children, prev, cur, yields, freed, steps >>
       ELSE IF cur \in FreedSet
       THEN /\ pc' = "ub"
            /\ UNCHANGED << children, prev, cur, yields, freed, steps,
                            exhausted >>
       ELSE LET r == NextBody(children, prev, cur)
            IN  /\ children' = r.children
                /\ prev' = r.prev
                /\ cur' = r.cur
                /\ steps' = steps + 1
                /\ pc' = "destroy"
                /\ IF r.k = ret
                   THEN yields' = Append(yields, cur) /\ freed' = Append(freed, cur)
                   ELSE yields' = yields /\ freed' = freed
                /\ UNCHANGED exhausted
    /\ UNCHANGED << tpVars, twoVars, kind, N, root, val, left, right, ret, orig, iters,
                    lastRun,
                    forgotten, hidden, atRest >>

\* -------------------------------------------------- binary_tree.rs actions
\* Tree::dfs_iter_mut: a NodeIter<_, 0> at the root.
BinDfsIterMut ==
    /\ kind = "binary" /\ pc = "rest"
    /\ iters < MaxIters
    /\ prev' = null /\ cur' = root /\ ret' = 0
    /\ pc' = "idle"
    /\ yields' = << >> /\ exhausted' = FALSE /\ steps' = 0
    /\ UNCHANGED << tpVars, twoVars, kind, N, root, val, children, left, right, freed, orig,
                    iters, lastRun, forgotten, hidden, atRest >>

\* DfsIterMut::next, one loop iteration of NodeIter::next at a time.
BinIterNext ==
    /\ kind = "binary" /\ pc \in {"idle", "next"} /\ steps < StepCap
    /\ IF cur = null
       THEN /\ pc' = "idle" /\ exhausted' = TRUE
            /\ UNCHANGED << left, right, prev, cur, yields, steps >>
       ELSE LET r == BinNextBody(left, right, prev, cur)
            IN  /\ left' = r.left
                /\ right' = r.right
                /\ prev' = r.prev
                /\ cur' = r.cur
                /\ steps' = steps + 1
                /\ IF r.panic
                   THEN yields' = yields /\ pc' = "panic"
                   ELSE IF r.k = ret
                   THEN yields' = Append(yields, cur) /\ pc' = "idle"
                   ELSE yields' = yields /\ pc' = "next"
                /\ UNCHANGED exhausted
    /\ UNCHANGED << tpVars, twoVars, kind, N, root, val, children, ret, freed, orig,
                    iters, lastRun,
                    forgotten, hidden, atRest >>

\* Drop for NodeIter: it prints and repairs nothing.
BinIterDrop ==
    /\ kind = "binary" /\ pc = "idle"
    /\ pc' = "rest"
    /\ iters' = iters + 1
    /\ lastRun' = [out |-> yields, ex |-> exhausted]
    /\ UNCHANGED << tpVars, twoVars, kind, N, root, val, children, left, right, prev, cur, ret,
                    freed, orig, yields, exhausted, forgotten, hidden, atRest,
                    steps >>

\* Mutant: Drop for Tree walks with NodeIter<_, 1>, freeing in in-order.
BinTreeDropInOrder ==
    /\ kind = "binary" /\ pc = "rest"
    /\ prev' = null /\ cur' = root /\ ret' = 1
    /\ pc' = "destroy"
    /\ atRest' = (\A x \in Nodes : left[x] = orig[x][0] /\ right[x] = orig[x][1])
    /\ yields' = << >> /\ exhausted' = FALSE /\ steps' = 0
    /\ UNCHANGED << tpVars, twoVars, kind, N, root, val, children, left, right, freed, orig,
                    iters, lastRun, forgotten, hidden >>

\* Mutant: Drop for Tree walks with NodeIter<_, 0>, freeing a node on its
\* first visit.
BinTreeDropPreOrder ==
    /\ kind = "binary" /\ pc = "rest"
    /\ prev' = null /\ cur' = root /\ ret' = 0
    /\ pc' = "destroy"
    /\ atRest' = (\A x \in Nodes : left[x] = orig[x][0] /\ right[x] = orig[x][1])
    /\ yields' = << >> /\ exhausted' = FALSE /\ steps' = 0
    /\ UNCHANGED << tpVars, twoVars, kind, N, root, val, children, left, right, freed, orig,
                    iters, lastRun, forgotten, hidden >>

\* Drop for Tree: a NodeIter<_, 2> at the root.
BinTreeDrop ==
    /\ kind = "binary" /\ pc = "rest"
    /\ prev' = null /\ cur' = root /\ ret' = 2
    /\ pc' = "destroy"
    /\ atRest' = (\A x \in Nodes : left[x] = orig[x][0] /\ right[x] = orig[x][1])
    /\ yields' = << >> /\ exhausted' = FALSE /\ steps' = 0
    /\ UNCHANGED << tpVars, twoVars, kind, N, root, val, children, left, right, freed, orig,
                    iters, lastRun, forgotten, hidden >>

\* The for loop of Drop for Tree, one loop iteration of NodeIter::next at a
\* time; a yielded node is handed to Box::from_raw at once.
BinDestroyStep ==
    /\ kind = "binary" /\ pc = "destroy" /\ steps < StepCap
    /\ IF cur = null
       THEN /\ pc' = "dropped" /\ exhausted' = TRUE
            /\ UNCHANGED << left, right, prev, cur, yields, freed, steps >>
       ELSE IF cur \in FreedSet
       THEN /\ pc' = "ub"
            /\ UNCHANGED << left, right, prev, cur, yields, freed, steps,
                            exhausted >>
       ELSE LET r == BinNextBody(left, right, prev, cur)
            IN  /\ left' = r.left
                /\ right' = r.right
                /\ prev' = r.prev
                /\ cur' = r.cur
                /\ steps' = steps + 1
                /\ IF r.panic
                   THEN yields' = yields /\ freed' = freed /\ pc' = "panic"
                   ELSE IF r.k = ret
                   THEN /\ yields' = Append(yields, cur)
                        /\ freed' = Append(freed, cur)
                        /\ pc' = "destroy"
                   ELSE yields' = yields /\ freed' = freed /\ pc' = "destroy"
                /\ UNCHANGED exhausted
    /\ UNCHANGED << tpVars, twoVars, kind, N, root, val, children, ret, orig, iters,
                    lastRun, forgotten,
                    hidden, atRest >>

\* ------------------------------------------------------------------ Spec
Next ==
    \/ DfsIterMut
    \/ IterNext
    \/ IterDrop
    \/ Forget
    \/ TreeDrop
    \/ DestroyStep
    \/ BinDfsIterMut
    \/ BinIterNext
    \/ BinIterDrop
    \/ BinTreeDrop
    \/ BinDestroyStep

Spec == Init /\ [][Next]_vars

\* ------------------------------------------------- reference definitions
\* The expected sequence of the harnesses: a node, then the subtrees of its
\* slots 0 .. N-1 in slot order, an empty slot giving nothing.
RECURSIVE PreOrder(_)
RECURSIVE PreOrderSlots(_, _)
PreOrder(n) ==
    IF n = null THEN << >> ELSE << n >> \o PreOrderSlots(n, 0)

PreOrderSlots(n, i) ==
    IF i >= N THEN << >>
    ELSE PreOrder(orig[n][i]) \o PreOrderSlots(n, i + 1)

\* DfsIterMut::next hands out the val of the node NodeIter::next yields.
Values(seq) == [i \in 1 .. Len(seq) |-> val[seq[i]]]

IsPrefix(s, t) ==
    /\ Len(s) <= Len(t)
    /\ \A i \in 1 .. Len(s) : s[i] = t[i]

NoDuplicates(s) == \A i, j \in 1 .. Len(s) : i # j => s[i] # s[j]

\* The nodes of the subtree the tree was built with below n, n included.
Subtree(n) == RangeOf(PreOrder(n))

Descendants(n) == Subtree(n) \ {n}

\* Every slot holds the reference it was built with, and no seen tag.
SlotsAtRest ==
    /\ children = orig
    /\ \A x \in Nodes : \A i \in Slots : ~is_seen(children[x][i])

\* The N-ary iterator has just returned None.
Exhausted == kind = "array" /\ pc = "idle" /\ exhausted

\* ------------------------------------------------------------- properties
\* C1: for N >= 1, an N-ary pre-order iterator driven until it returns None
\* has yielded exactly the reference pre-order of the tree: the same nodes in
\* the same order, every node once, hence the same values.
C1_PreOrderMatchesReference ==
    (Exhausted /\ N >= 1) =>
        /\ yields = PreOrder(root)
        /\ Values(yields) = Values(PreOrder(root))
        /\ Len(yields) = Cardinality(Nodes)
        /\ \A x \in Nodes : Cardinality({ i \in 1 .. Len(yields) : yields[i] = x }) = 1

\* A three-node tree traversed in full whose pre-order is not the order of
\* the addresses.
C1_Witness ==
    /\ Exhausted /\ N >= 2
    /\ Len(yields) = 3
    /\ yields[2] > yields[3]

\* C2: when an N-ary iterator has returned None, every slot of every node
\* holds the reference it held before the traversal, without the seen tag.
C2_ExhaustionRestoresSlots ==
    Exhausted => SlotsAtRest

\* A full traversal of a tree in which a node has two children.
C2_Witness ==
    /\ Exhausted /\ Len(yields) = 3
    /\ \E x \in Nodes : \E i, j \in Slots :
          i # j /\ orig[x][i] # null /\ orig[x][j] # null

\* C3: what an N-ary iterator has yielded so far is always a prefix of the
\* reference pre-order, and after an iterator was dropped at any point the
\* next iterator driven until None yields the whole reference pre-order.
C3_AbandonThenFullTraversal ==
    /\ (kind = "array" /\ pc \in {"idle", "next", "release"}) =>
          /\ IsPrefix(yields, PreOrder(root))
          /\ IsPrefix(Values(yields), Values(PreOrder(root)))
    /\ (Exhausted /\ iters >= 1 /\ ~forgotten) =>
          /\ IsPrefix(lastRun.out, PreOrder(root))
          /\ yields = PreOrder(root)
          /\ Values(yields) = Values(PreOrder(root))

\* An iterator dropped after two of three nodes, then a full traversal.
C3_Witness ==
    /\ Exhausted /\ iters = 1 /\ ~forgotten
    /\ ~lastRun.ex /\ Len(lastRun.out) = 2
    /\ Len(yields) = 3

\* C4: when Drop for NodeIter has run, from whatever state the iterator was
\* in between two next() calls, cur is null and every slot holds its
\* original reference without the seen tag.
C4_ReleaseRestoresRest ==
    (kind = "array" /\ pc = "rest" /\ iters >= 1 /\ ~forgotten) =>
        /\ cur = null
        /\ SlotsAtRest

\* A release that had to climb at least two levels after a partial traversal.
C4_Witness ==
    /\ kind = "array" /\ pc = "rest" /\ iters = 1 /\ ~forgotten
    /\ ~lastRun.ex /\ Len(lastRun.out) >= 2
    /\ steps >= 2

\* C5: two traversals to exhaustion in succession yield the same nodes and
\* values, and both are the reference pre-order.
C5_IdempotentRetraversal ==
    (Exhausted /\ iters >= 1 /\ lastRun.ex /\ ~forgotten) =>
        /\ yields = lastRun.out
        /\ Values(yields) = Values(lastRun.out)
        /\ yields = PreOrder(root)

\* The second of two full traversals of a three-node tree has ended.
C5_Witness ==
    /\ Exhausted /\ iters = 1 /\ lastRun.ex /\ ~forgotten
    /\ Len(yields) = 3 /\ N >= 2

\* C6: when the N-ary tree has been destroyed after iterators that were all
\* dropped, every node has been freed exactly once; no node is freed twice
\* on the way.
C6_DestructionFreesAllOnce ==
    (kind = "array" /\ ~forgotten) =>
        /\ pc # "ub"
        /\ NoDuplicates(freed)
        /\ pc = "dropped" => /\ FreedSet = Nodes
                             /\ Len(freed) = Cardinality(Nodes)

\* A three-node tree destroyed after a traversal that was dropped half way.
C6_Witness ==
    /\ kind = "array" /\ pc = "dropped" /\ ~forgotten
    /\ iters >= 1 /\ ~lastRun.ex /\ Len(lastRun.out) = 2
    /\ Len(freed) = 3

\* The node whose slot held x when the tree was built, null for the root.
OrigParent(x) ==
    IF \E y \in Nodes : \E i \in Slots : orig[y][i] = x
    THEN CHOOSE y \in Nodes : \E i \in Slots : orig[y][i] = x
    ELSE null

\* The nodes from x up to the root in the tree as built.
RECURSIVE PathTo(_)
PathTo(x) == IF x = null THEN {} ELSE {x} \cup PathTo(OrigParent(x))

\* C7: in the walk of Tree::drop a freed node is never current again, so no
\* step reads or writes a field of it, and the step after a node was freed
\* puts its address into a slot of its parent.
C7_NoUseAfterFreeInDestruction ==
    [][ (kind = "array" /\ pc = "destroy") =>
          /\ cur \notin FreedSet
          /\ pc' # "ub"
          /\ \A x \in FreedSet : children'[x] = children[x] /\ val'[x] = val[x]
          /\ (prev \in FreedSet /\ cur # null) =>
                \E i \in Slots : as_untagged(children'[cur][i]) = prev ]_vars

\* The walk is back at a parent whose child has just been freed, with
\* another node freed before that.
C7_Witness ==
    /\ kind = "array" /\ pc = "destroy"
    /\ prev \in FreedSet /\ cur # null
    /\ Len(freed) >= 2

\* C8: in the destruction of a tree at rest, N-ary or binary, every
\* descendant of a freed node was freed before it, and the root is the last
\* node freed.
C8_LeafFirstReclamation ==
    (atRest /\ pc \in {"destroy", "dropped"}) =>
        /\ \A i \in 1 .. Len(freed) :
              Descendants(freed[i]) \subseteq { freed[j] : j \in 1 .. (i - 1) }
        /\ (pc = "dropped" /\ root # null) =>
              /\ Len(freed) = Cardinality(Nodes)
              /\ freed[Len(freed)] = root

\* A binary tree whose root has two children has been destroyed.
C8_Witness ==
    /\ kind = "binary" /\ pc = "dropped" /\ atRest
    /\ Len(freed) = 3
    /\ orig[root][0] # null /\ orig[root][1] # null

\* C9: when the N-ary tree is destroyed after an iterator was forgotten, the
\* walk never reads a freed node, frees no node twice, and ends: it is never
\* cut off and runs at most N + 1 loop iterations per node.
C9_ForgottenIteratorIsSafe ==
    (kind = "array" /\ forgotten) =>
        /\ pc # "ub"
        /\ NoDuplicates(freed)
        /\ pc = "destroy" =>
              /\ cur \notin FreedSet
              /\ steps <= Cardinality(Nodes) * (N + 1)
              /\ ENABLED DestroyStep

\* A tree destroyed in the state left by an iterator that was forgotten
\* after two yields.
C9_Witness ==
    /\ kind = "array" /\ forgotten /\ pc = "dropped"
    /\ ~lastRun.ex /\ Len(lastRun.out) = 2
    /\ hidden # {}
    /\ Len(freed) >= 1

\* C10: the destruction after a forgotten iterator frees no node that only
\* a seen-tagged slot or the iterator led to: not the nodes below the root
\* on the path to the abandoned cur, and no subtree whose owning slot
\* carries the seen tag.
C10_ForgottenIteratorLeaks ==
    (kind = "array" /\ forgotten) =>
        /\ FreedSet \cap hidden = {}
        /\ pc = "rest" =>
              /\ (PathTo(cur) \ {root}) \subseteq hidden
              /\ \A x \in Nodes : \A i \in Slots :
                    is_seen(children[x][i]) => Subtree(orig[x][i]) \subseteq hidden

\* A destruction that left a path node and a finished sibling unreclaimed.
C10_Witness ==
    /\ kind = "array" /\ forgotten /\ pc = "dropped"
    /\ Cardinality(hidden) >= 2
    /\ Len(freed) >= 1
    /\ N >= 2 /\ orig[root][0] \in hidden /\ orig[root][1] \in hidden

\* ------------------------------------------ NodeIter, any RETURN_ON_VISIT
\* The binary tree holds the child references it was built with, untagged.
BinSlotsAtRest ==
    \A x \in Nodes : left[x] = orig[x][0] /\ right[x] = orig[x][1]

\* NodeIter<T, N, R> { prev: null, cur: root } of array_tree.rs, for every
\* yield point R in 0 .. N; dfs_iter_mut builds it with R = 0 and Drop for
\* Tree with R = N.
NodeIterNew ==
    /\ kind = "array" /\ pc = "rest"
    /\ iters < MaxIters
    /\ \E r \in 0 .. N : ret' = r
    /\ prev' = null /\ cur' = root
    /\ pc' = "idle"
    /\ atRest' = SlotsAtRest
    /\ yields' = << >> /\ exhausted' = FALSE /\ steps' = 0
    /\ UNCHANGED << tpVars, twoVars, kind, N, root, val, children, left, right, freed,
                    orig, iters, lastRun, forgotten, hidden >>

\* NodeIter<T, R> { prev: null, cur: root } of binary_tree.rs, for every
\* yield point R in 0 .. 2.
BinNodeIterNew ==
    /\ kind = "binary" /\ pc = "rest"
    /\ iters < MaxIters
    /\ \E r \in 0 .. 2 : ret' = r
    /\ prev' = null /\ cur' = root
    /\ pc' = "idle"
    /\ atRest' = BinSlotsAtRest
    /\ yields' = << >> /\ exhausted' = FALSE /\ steps' = 0
    /\ UNCHANGED << tpVars, twoVars, kind, N, root, val, children, left, right, freed,
                    orig, iters, lastRun, forgotten, hidden >>

NextVisit ==
    \/ NodeIterNew
    \/ IterNext
    \/ IterDrop
    \/ TreeDrop
    \/ DestroyStep
    \/ BinNodeIterNew
    \/ BinIterNext
    \/ BinIterDrop
    \/ BinTreeDrop
    \/ BinDestroyStep

SpecVisit == Init /\ [][NextVisit]_vars

\* The reference orders of a binary tree: left subtree, node, right subtree
\* for the in-order, both subtrees and then the node for the post-order.
RECURSIVE InOrder(_)
InOrder(n) ==
    IF n = null THEN << >>
    ELSE InOrder(orig[n][0]) \o << n >> \o InOrder(orig[n][1])

RECURSIVE PostOrder(_)
PostOrder(n) ==
    IF n = null THEN << >>
    ELSE PostOrder(orig[n][0]) \o PostOrder(orig[n][1]) \o << n >>

\* A binary NodeIter that began on a tree at rest has just returned None.
BinExhausted == kind = "binary" /\ atRest /\ pc = "idle" /\ exhausted

\* C11: a binary NodeIter begun on a tree at rest and driven until it
\* returns None has yielded the nodes in the reference pre-order when
\* RETURN_ON_VISIT is 0, in the reference in-order when it is 1 and in the
\* reference post-order when it is 2, each node once; on a single leaf all
\* three yield that leaf alone.
C11_BinaryThreeOrders ==
    BinExhausted =>
        /\ ret = 0 => yields = PreOrder(root)
        /\ ret = 1 => yields = InOrder(root)
        /\ ret = 2 => yields = PostOrder(root)
        /\ NoDuplicates(yields)
        /\ RangeOf(yields) = Nodes
        /\ Cardinality(Nodes) = 1 => yields = << root >>

\* An in-order walk of a root with two children, whose three orders differ.
C11_Witness ==
    /\ BinExhausted /\ ret = 1
    /\ Cardinality(Nodes) = 3
    /\ orig[root][0] # null /\ orig[root][1] # null
    /\ yields = << orig[root][0], root, orig[root][1] >>

\* C12: in binary_tree.rs no node ever has its right slot tagged seen while
\* its left slot is untagged, whatever RETURN_ON_VISIT the iterators have
\* and wherever they were discarded, so NodeIter::next never reaches the
\* unreachable!() of (false, true).
C12_RightNeverSeenBeforeLeft ==
    kind = "binary" =>
        /\ pc # "panic"
        /\ \A x \in Nodes : is_seen(right[x]) => is_seen(left[x])

\* A second iterator, begun on the tree a first one left in the middle of
\* its walk, has run to None through all three visits of some node.
C12_Witness ==
    /\ kind = "binary" /\ pc = "idle" /\ exhausted
    /\ iters = 1 /\ ~lastRun.ex /\ Len(lastRun.out) >= 1
    /\ ~atRest /\ steps >= 3
    /\ Len(yields) >= 1

\* C13: in binary_tree.rs, a pre-order iterator discarded after some prefix
\* of its yields leaves the tree such that a fresh iterator driven until it
\* returns None yields the complete original pre-order again.
C13_BinaryAbandonThenFullTraversal ==
    (kind = "binary" /\ ret = 0 /\ iters = 1 /\ pc = "idle" /\ exhausted) =>
        yields = PreOrder(root)

\* C14: destroying a binary tree after no pre-order iterator, after iterators
\* discarded in the middle of their walk or after exhausted ones never takes
\* the (false, true) arm, never reads a freed node, frees no node twice, and
\* ends: the walk is never cut off and runs at most three loop iterations
\* per node.
C14_BinaryDestructionIsSafe ==
    (kind = "binary" /\ pc \in {"destroy", "dropped", "ub", "panic"}) =>
        /\ pc \notin {"ub", "panic"}
        /\ NoDuplicates(freed)
        /\ pc = "destroy" =>
              /\ cur \notin FreedSet
              /\ steps <= 3 * Cardinality(Nodes)
              /\ ENABLED BinDestroyStep

\* A binary tree destroyed in the state an iterator discarded after one
\* yield left it in.
C14_Witness ==
    /\ kind = "binary" /\ pc = "dropped"
    /\ iters >= 1 /\ ~lastRun.ex /\ Len(lastRun.out) = 1
    /\ ~atRest
    /\ Cardinality(Nodes) = 3 /\ Len(freed) >= 1

\* C15: on a tree whose root is null, N-ary of any arity or binary, with any
\* RETURN_ON_VISIT, a call of next returns None at once, no loop iteration
\* runs and nothing is ever yielded, and the walk of Drop for Tree ends at
\* once and frees no node.
C15_EmptyTree ==
    [][root = null =>
          /\ yields' = << >> /\ freed' = << >> /\ steps' = 0
          /\ (pc = "idle" /\ pc' # "rest") => (pc' = "idle" /\ exhausted')
          /\ pc = "destroy" => pc' = "dropped"]_vars

\* An empty tree destroyed after an iterator on it returned None.
C15_Witness ==
    /\ root = null /\ pc = "dropped"
    /\ iters >= 1 /\ lastRun.ex /\ lastRun.out = << >>
    /\ freed = << >> /\ steps = 0

\* C16 as stated: once an N-ary iterator has returned None, on any tree,
\* its prev and its cur are both null.
C16_PrevAndCurNullAfterExhaustion ==
    Exhausted => (prev = null /\ cur = null)

\* C16: once an N-ary iterator has returned None, its cur is null and its
\* prev is the root of the tree, the node it ascended from last: prev is
\* null on the empty tree only.
C16_CurNullPrevRootAfterExhaustion ==
    Exhausted =>
        /\ cur = null
        /\ prev = root
        /\ prev = null <=> Nodes = {}

\* An iterator that returned None on a tree of three nodes.
C16_Witness ==
    /\ Exhausted /\ Cardinality(Nodes) = 3
    /\ Len(yields) = 3
    /\ cur = null /\ prev = root /\ root # null

\* ------------------------------------------------- tagged_ptr.rs on its own
\* The addresses a TaggedPtr is made from: align_of::<T>() > 1 (ALIGN_OK)
\* makes every non-null one even, and null is address 0.
EvenAddrs == {a \in 0 .. MaxAddr : a % 2 = 0}

\* TaggedPtr::from_untagged(raw) for any even address, and no tree.
InitTagged ==
    /\ raw \in EvenAddrs
    /\ tagged = from_untagged(raw)
    /\ iter2 = [prev |-> null, cur |-> null]
    /\ yields2 = << >>
    /\ modes = [a |-> "none", b |-> "none", mixed |-> FALSE]
    /\ pc = "tagged"
    /\ kind = "tagged"
    /\ N = 0 /\ root = null /\ val = << >> /\ orig = << >>
    /\ children = << >> /\ left = << >> /\ right = << >>
    /\ prev = null /\ cur = null /\ ret = 0
    /\ freed = << >> /\ yields = << >> /\ exhausted = FALSE
    /\ iters = 0 /\ lastRun = [out |-> << >>, ex |-> FALSE]
    /\ forgotten = FALSE /\ hidden = {} /\ atRest = TRUE /\ steps = 0

\* tagged = tagged.seen()
TpSeen ==
    /\ pc = "tagged"
    /\ tagged' = seen(tagged)
    /\ UNCHANGED << raw, twoVars, kind, N, root, val, children, left, right, prev, cur,
                    ret, pc, freed, orig, yields, exhausted, iters, lastRun,
                    forgotten, hidden, atRest, steps >>

\* tagged = tagged.unseen()
TpUnseen ==
    /\ pc = "tagged"
    /\ tagged' = unseen(tagged)
    /\ UNCHANGED << raw, twoVars, kind, N, root, val, children, left, right, prev, cur,
                    ret, pc, freed, orig, yields, exhausted, iters, lastRun,
                    forgotten, hidden, atRest, steps >>

NextTagged ==
    \/ TpSeen
    \/ TpUnseen

SpecTagged == InitTagged /\ [][NextTagged]_vars

\* C17: for a TaggedPtr made from any even address, null included, and
\* carried through any sequence of seen and unseen: as_untagged returns the
\* address whatever the tag, is_seen is true after seen and false after
\* unseen, seen and unseen are idempotent, and both change the low bit only.
C17_TaggedPtrLaws ==
    pc = "tagged" =>
        /\ as_untagged(tagged) = raw
        /\ as_untagged(seen(tagged)) = raw
        /\ as_untagged(unseen(tagged)) = raw
        /\ is_seen(seen(tagged))
        /\ ~is_seen(unseen(tagged))
        /\ seen(seen(tagged)) = seen(tagged)
        /\ unseen(unseen(tagged)) = unseen(tagged)
        /\ seen(tagged) \div 2 = tagged \div 2
        /\ unseen(tagged) \div 2 = tagged \div 2
        /\ tagged \in {raw, raw + SEEN_BIT}

\* The null pointer carrying the seen tag, as the back-link of a root does.
C17_Witness ==
    /\ pc = "tagged"
    /\ raw = null
    /\ tagged # raw /\ is_seen(tagged)

\* C19: while an N-ary walk that began on a tree at rest is under way (a
\* traversal with any RETURN_ON_VISIT, its release, or the walk of Drop for
\* Tree), between any two loop iterations every node with a seen-tagged slot
\* lies on the path from cur up to the root, and every node off that path
\* holds in all its slots the untagged child references it was built with.
C19_OnlyThePathIsRewritten ==
    (kind = "array" /\ atRest /\ pc \in {"idle", "next", "release", "destroy"}) =>
        LET path == PathTo(cur)
        IN  \A x \in Nodes \ FreedSet :
                /\ (\E i \in Slots : is_seen(children[x][i])) => x \in path
                /\ x \notin path =>
                      /\ children[x] = orig[x]
                      /\ \A i \in Slots : ~is_seen(children[x][i])

\* The walk stands in the second child of the root: the root carries
\* back-links, and the first child, visited and left, is as it was built.
C19_Witness ==
    /\ kind = "array" /\ atRest /\ pc \in {"idle", "next"}
    /\ N >= 2 /\ Cardinality(Nodes) = 3
    /\ cur # null /\ cur # root /\ cur = orig[root][1]
    /\ orig[root][0] # null /\ orig[root][0] \in RangeOf(yields)
    /\ is_seen(children[root][0]) /\ is_seen(children[root][1])
    /\ children[orig[root][0]] = orig[orig[root][0]]

\* The slots of node x in the layout of a walk: the seen-tagged slots are
\* the first k, slot 0 of them holds the parent of x, slot i of them holds
\* the child slot i-1 was built with, and the slots from k on are as built.
BackLinkLayout(x) ==
    LET k == first_unvisited(children[x])
    IN  /\ \A j \in Slots : is_seen(children[x][j]) <=> j < k
        /\ k >= 1 => as_untagged(children[x][0]) = OrigParent(x)
        /\ \A i \in 1 .. (k - 1) : as_untagged(children[x][i]) = orig[x][i - 1]
        /\ \A j \in Slots : j >= k => children[x][j] = orig[x][j]

\* The child that slot k-1 of x was built with is the one the shift of the
\* ascent puts back: prev when x is cur, the next node down the path to cur
\* when x is above cur.
DisplacedChildIsRecoverable(x) ==
    LET k == first_unvisited(children[x])
    IN  k >= 1 =>
            IF x = cur
            THEN orig[x][k - 1] = prev
            ELSE orig[x][k - 1] # null /\ orig[x][k - 1] \in PathTo(cur)

\* C20 as stated: in every reachable state every node of the N-ary tree is
\* in the back-link layout and the child displaced from slot k-1 is prev or
\* the next node down the path to cur.
C20_BackLinkLayoutInEveryState ==
    kind = "array" =>
        \A x \in Nodes \ FreedSet :
            BackLinkLayout(x) /\ DisplacedChildIsRecoverable(x)

\* C20: as long as no iterator was forgotten, so that every walk began on a
\* tree at rest, every node of the N-ary tree is in the back-link layout in
\* every reachable state, and the child displaced from slot k-1 is prev or
\* the next node down the path to cur, which the shift of the ascent puts
\* back.
C20_BackLinkLayout ==
    (kind = "array" /\ ~forgotten) =>
        \A x \in Nodes \ FreedSet :
            BackLinkLayout(x) /\ DisplacedChildIsRecoverable(x)

\* The walk is back in the root after its first child, with two slots of
\* the root converted: the parent in slot 0, the first child's place taken
\* by the back-link, and the child itself in prev.
C20_Witness ==
    /\ kind = "array" /\ ~forgotten /\ pc \in {"idle", "next"}
    /\ N = 3 /\ cur = root /\ cur # null
    /\ first_unvisited(children[root]) = 2
    /\ orig[root][0] # null /\ orig[root][1] = prev
    /\ children[root][0] = seen(from_untagged(null))
    /\ children[root][1] = seen(from_untagged(orig[root][0]))

\* The reference post-order of an N-ary tree: the subtrees of slots 0 .. N-1
\* in slot order, then the node.
RECURSIVE PostOrderN(_)
RECURSIVE PostOrderSlots(_, _)
PostOrderN(n) ==
    IF n = null THEN << >> ELSE PostOrderSlots(n, 0) \o << n >>

PostOrderSlots(n, i) ==
    IF i >= N THEN << >>
    ELSE PostOrderN(orig[n][i]) \o PostOrderSlots(n, i + 1)

\* C21: for every RETURN_ON_VISIT in 0 .. N, a loop iteration of the N-ary
\* NodeIter::next hands out the node it processed exactly when the first
\* unseen index k of that node was RETURN_ON_VISIT, and goes on without
\* yielding otherwise; a traversal begun on a tree at rest and driven until
\* it returns None has yielded every node exactly once, and with
\* RETURN_ON_VISIT = N in the reference post-order.
C21_YieldPoint ==
    [][(kind = "array" /\ atRest /\ pc \in {"idle", "next"}
            /\ pc' \in {"idle", "next"}) =>
          /\ cur # null =>
                LET k == first_unvisited(children[cur])
                IN  /\ k = ret => (yields' = Append(yields, cur) /\ pc' = "idle")
                    /\ k # ret => (yields' = yields /\ pc' = "next")
          /\ cur = null =>
                /\ yields' = yields /\ exhausted'
                /\ NoDuplicates(yields)
                /\ RangeOf(yields) = Nodes
                /\ ret = N => yields = PostOrderN(root)]_vars

\* A post-order walk of a root with two children has returned None.
C21_Witness ==
    /\ Exhausted /\ atRest /\ N = 2 /\ ret = N
    /\ Cardinality(Nodes) = 3
    /\ orig[root][0] # null /\ orig[root][1] # null
    /\ yields = << orig[root][0], orig[root][1], root >>

\* C22: a loop iteration of the N-ary NodeIter::next on a node whose first
\* unseen index k is below N writes one slot of the whole tree, slot k of
\* cur, which becomes prev with the seen tag; if that slot held null, prev
\* becomes null and cur stays, otherwise prev becomes the old cur and cur
\* the node the slot held; no other slot and no value changes.
C22_DescendStepFrame ==
    [][(/\ kind = "array" /\ cur # null
        /\ \/ pc \in {"idle", "next"} /\ pc' \in {"idle", "next"}
           \/ pc = "destroy" /\ pc' = "destroy"
        /\ first_unvisited(children[cur]) < N) =>
          LET k == first_unvisited(children[cur])
              old == children[cur][k]
          IN  /\ is_seen(children'[cur][k])
              /\ as_untagged(children'[cur][k]) = prev
              /\ \A x \in Nodes : \A i \in Slots :
                    (x # cur \/ i # k) => children'[x][i] = children[x][i]
              /\ val' = val
              /\ old = null => (prev' = null /\ cur' = cur)
              /\ old # null => (prev' = cur /\ cur' = old)]_vars

\* The walk has stepped from the root into its second child, the root's
\* first slot being a back-link already.
C22_Witness ==
    /\ kind = "array" /\ pc \in {"idle", "next"} /\ N >= 2
    /\ cur # null /\ prev = root /\ cur = orig[root][1]
    /\ children[root][1] = seen(from_untagged(orig[root][0]))
    /\ is_seen(children[root][0])
    /\ ~is_seen(children[cur][0])

\* C23: every iteration of the loop of the N-ary NodeIter::drop, begun from
\* any state between two calls of next, yields nothing, moves cur to its
\* parent and never into a child, and writes no slot of any node but cur;
\* the iterations run so far and the nodes left on the path from cur to the
\* root add up to the length of the path the release began on, so cur is
\* null after exactly that many iterations.
C23_ReleaseOnlyAscends ==
    [][(kind = "array" /\ pc \in {"idle", "release"} /\ pc' = "release") =>
          /\ cur # null
          /\ yields' = yields
          /\ cur' = OrigParent(cur)
          /\ prev' = cur
          /\ \A x \in Nodes : x # cur => children'[x] = children[x]
          /\ steps' + Cardinality(PathTo(cur')) =
                (IF pc = "idle" THEN 0 ELSE steps) + Cardinality(PathTo(cur))
          /\ steps' <= Cardinality(Nodes)]_vars

\* A release begun two nodes below the root has reached the null cur after
\* three iterations.
C23_Witness ==
    /\ kind = "array" /\ pc = "release" /\ N >= 1
    /\ cur = null /\ prev = root
    /\ steps = 3 /\ Cardinality(Nodes) = 3
    /\ SlotsAtRest

\* The loop iterations a full walk spends on each node: one per slot and the
\* ascent in array_tree.rs, the three visits in binary_tree.rs.
StepsPerNode == IF kind = "array" THEN N + 1 ELSE 3

\* C24: a traversal begun on a tree at rest never runs more loop iterations
\* than StepsPerNode for each node, the loop is never cut off (steps stays
\* below StepCap, the one guard of IterNext and BinIterNext), and cur is
\* null, so that next returns None, exactly when that many iterations have
\* run: every call returns and repeated calls reach None.  A full N-ary
\* traversal of M nodes has then run exactly M * (N + 1) iterations.
C24_Termination ==
    (kind \in {"array", "binary"} /\ atRest /\ pc \in {"idle", "next"}) =>
        LET total == Cardinality(Nodes) * StepsPerNode
        IN  /\ steps <= total
            /\ cur = null <=> steps = total
            /\ steps < StepCap
            /\ exhausted => steps = total
            /\ (exhausted /\ kind = "array") =>
                  steps = Cardinality(Nodes) * (N + 1)

\* A traversal of three nodes of arity 3 has returned None after twelve
\* loop iterations.
C24_Witness ==
    /\ Exhausted /\ atRest /\ N = 3
    /\ Cardinality(Nodes) = 3
    /\ steps = 12

\* ------------------------------------------- two NodeIters over one tree
\* Two NodeIter<_, N, 0> { prev: null, cur: root } over the same tree at
\* rest.  The borrow of dfs_iter_mut(&mut self) keeps safe callers from
\* holding both; the steps below are what the code of next and drop does
\* when they are held all the same.  An owner is "new" before the first
\* loop iteration of its iterator, "idle" between calls of next, "next"
\* inside a call, "release" inside drop, and "done" after None or drop.
TwoIters ==
    /\ kind = "array" /\ N >= 1 /\ pc = "rest" /\ modes.a = "none"
    /\ prev' = null /\ cur' = root /\ ret' = 0
    /\ iter2' = [prev |-> null, cur |-> root]
    /\ modes' = [a |-> "new", b |-> "new", mixed |-> FALSE]
    /\ pc' = "two"
    /\ steps' = 0
    /\ UNCHANGED << tpVars, yields2, kind, N, root, val, children, left, right, freed,
                    orig, yields, exhausted, iters, lastRun, forgotten, hidden,
                    atRest >>

\* The owner's place after a loop iteration of next that processed a node
\* with first unseen index k.
AfterNext(k) == IF k = ret THEN "idle" ELSE "next"

\* The other iterator is in the middle of its walk.
MidWalk(m) == m \in {"idle", "next", "release"}

\* One loop iteration of next of the first iterator.
TwoNextA ==
    /\ pc = "two" /\ modes.a \in {"new", "idle", "next"}
    /\ steps < 2 * StepCap
    /\ IF cur = null
       THEN /\ modes' = [modes EXCEPT !.a = "done"]
            /\ UNCHANGED << children, prev, cur, steps >>
       ELSE LET r == NextBody(children, prev, cur)
            IN  /\ children' = r.children
                /\ prev' = r.prev
                /\ cur' = r.cur
                /\ steps' = steps + 1
                /\ modes' = [modes EXCEPT !.a = AfterNext(r.k),
                                          !.mixed = @ \/ MidWalk(modes.b)]
    /\ UNCHANGED << tpVars, iter2, yields2, kind, N, root, val, left, right, ret, pc,
                    freed, orig, yields, exhausted, iters, lastRun, forgotten,
                    hidden, atRest >>

\* One loop iteration of next of the second iterator.
TwoNextB ==
    /\ pc = "two" /\ modes.b \in {"new", "idle", "next"}
    /\ steps < 2 * StepCap
    /\ IF iter2.cur = null
       THEN /\ modes' = [modes EXCEPT !.b = "done"]
            /\ UNCHANGED << children, iter2, steps >>
       ELSE LET r == NextBody(children, iter2.prev, iter2.cur)
            IN  /\ children' = r.children
                /\ iter2' = [prev |-> r.prev, cur |-> r.cur]
                /\ steps' = steps + 1
                /\ modes' = [modes EXCEPT !.b = AfterNext(r.k),
                                          !.mixed = @ \/ MidWalk(modes.a)]
    /\ UNCHANGED << tpVars, yields2, prev, cur, kind, N, root, val, left, right, ret,
                    pc, freed, orig, yields, exhausted, iters, lastRun,
                    forgotten, hidden, atRest >>

\* One loop iteration of drop of the first iterator, dropped between two
\* calls of next.
TwoDropA ==
    /\ pc = "two" /\ modes.a \in {"new", "idle", "release"}
    /\ steps < 2 * StepCap
    /\ IF cur = null
       THEN /\ modes' = [modes EXCEPT !.a = "done"]
            /\ UNCHANGED << children, prev, cur, steps >>
       ELSE LET r == DropBody(children, prev, cur)
            IN  /\ children' = r.children
                /\ prev' = r.prev
                /\ cur' = r.cur
                /\ steps' = steps + 1
                /\ modes' = [modes EXCEPT !.a = "release",
                                          !.mixed = @ \/ MidWalk(modes.b)]
    /\ UNCHANGED << tpVars, iter2, yields2, kind, N, root, val, left, right, ret, pc,
                    freed, orig, yields, exhausted, iters, lastRun, forgotten,
                    hidden, atRest >>

\* One loop iteration of drop of the second iterator.
TwoDropB ==
    /\ pc = "two" /\ modes.b \in {"new", "idle", "release"}
    /\ steps < 2 * StepCap
    /\ IF iter2.cur = null
       THEN /\ modes' = [modes EXCEPT !.b = "done"]
            /\ UNCHANGED << children, iter2, steps >>
       ELSE LET r == DropBody(children, iter2.prev, iter2.cur)
            IN  /\ children' = r.children
                /\ iter2' = [prev |-> r.prev, cur |-> r.cur]
                /\ steps' = steps + 1
                /\ modes' = [modes EXCEPT !.b = "release",
                                          !.mixed = @ \/ MidWalk(modes.a)]
    /\ UNCHANGED << tpVars, yields2, prev, cur, kind, N, root, val, left, right, ret,
                    pc, freed, orig, yields, exhausted, iters, lastRun,
                    forgotten, hidden, atRest >>

NextTwo ==
    \/ TwoIters
    \/ TwoNextA
    \/ TwoNextB
    \/ TwoDropA
    \/ TwoDropB

SpecTwo == Init /\ [][NextTwo]_vars

\* Both iterators have returned None or have been dropped.
BothDone == pc = "two" /\ modes.a = "done" /\ modes.b = "done"

\* C25: two iterators begun on the same tree at rest can leave it corrupted,
\* and only by interleaving: whenever both have returned None or have been
\* dropped and some slot differs from the reference it was built with, a
\* loop iteration of one ran while the other was in the middle of its walk.
\* C25_Witness is such an end, which makes the corruption reachable.
C25_TwoTraversalsCorrupt ==
    (BothDone /\ ~SlotsAtRest) => modes.mixed

\* Both iterators are done and a slot of the root that was built with a
\* child no longer holds it: the child is lost.
C25_Witness ==
    /\ BothDone /\ modes.mixed
    /\ \A x \in Nodes : \A i \in Slots : ~is_seen(children[x][i])
    /\ \E i \in Slots : orig[root][i] # null /\ children[root][i] # orig[root][i]

\* ------------------------------- binary_tree.rs beside array_tree.rs, N = 2
\* One tree built twice, as a binary_tree.rs tree in left and right and as
\* an array_tree.rs tree of arity 2 in children, left being slot 0 and
\* right slot 1; no iterator yet.
InitLock ==
    \E n \in 0 .. MaxNodes :
      \E f \in TreeShapes(n, 2) :
        /\ kind = "both"
        /\ N = 2
        /\ root = TreeNew(n)
        /\ val = ValueMap(n)
        /\ orig = alloc(f, n, 2)
        /\ children = alloc(f, n, 2)
        /\ left = [x \in DOMAIN alloc(f, n, 2) |-> alloc(f, n, 2)[x][0]]
        /\ right = [x \in DOMAIN alloc(f, n, 2) |-> alloc(f, n, 2)[x][1]]
        /\ prev = null /\ cur = null /\ ret = 0
        /\ iter2 = [prev |-> null, cur |-> null]
        /\ yields = << >> /\ yields2 = << >>
        /\ pc = "rest"
        /\ freed = << >> /\ exhausted = FALSE
        /\ iters = 0 /\ lastRun = [out |-> << >>, ex |-> FALSE]
        /\ forgotten = FALSE /\ hidden = {} /\ atRest = TRUE /\ steps = 0
        /\ raw = null /\ tagged = from_untagged(null)
        /\ modes = [a |-> "none", b |-> "none", mixed |-> FALSE]

\* A binary NodeIter<T, R> in prev and cur and an N-ary NodeIter<T, 2, R> in
\* iter2, both at the root, with the same R in 0 .. 2, on trees at rest.
LockNew ==
    /\ kind = "both" /\ pc = "rest"
    /\ iters < MaxIters
    /\ \E r \in 0 .. 2 : ret' = r
    /\ prev' = null /\ cur' = root
    /\ iter2' = [prev |-> null, cur |-> root]
    /\ yields' = << >> /\ yields2' = << >>
    /\ pc' = "lock"
    /\ exhausted' = FALSE /\ steps' = 0
    /\ UNCHANGED << tpVars, modes, kind, N, root, val, children, left, right,
                    freed, orig, iters, lastRun, forgotten, hidden, atRest >>

\* One loop iteration of next of each of the two iterators; one that finds
\* its cur null has returned None and stands still.
LockStep ==
    /\ kind = "both" /\ pc = "lock" /\ steps < StepCap
    /\ cur # null \/ iter2.cur # null
    /\ IF cur = null
       THEN UNCHANGED << left, right, prev, cur, yields, pc >>
       ELSE LET b == BinNextBody(left, right, prev, cur)
            IN  /\ left' = b.left
                /\ right' = b.right
                /\ prev' = b.prev
                /\ cur' = b.cur
                /\ pc' = IF b.panic THEN "panic" ELSE "lock"
                /\ yields' = IF b.k = ret THEN Append(yields, cur) ELSE yields
    /\ IF iter2.cur = null
       THEN UNCHANGED << children, iter2, yields2 >>
       ELSE LET a == NextBody(children, iter2.prev, iter2.cur)
            IN  /\ children' = a.children
                /\ iter2' = [prev |-> a.prev, cur |-> a.cur]
                /\ yields2' = IF a.k = ret THEN Append(yields2, iter2.cur)
                              ELSE yields2
    /\ steps' = steps + 1
    /\ UNCHANGED << tpVars, modes, kind, N, root, val, ret, freed, orig,
                    exhausted, iters, lastRun, forgotten, hidden, atRest >>

\* Both iterators return None and are discarded.
LockEnd ==
    /\ kind = "both" /\ pc = "lock"
    /\ cur = null /\ iter2.cur = null
    /\ pc' = "rest"
    /\ exhausted' = TRUE
    /\ iters' = iters + 1
    /\ lastRun' = [out |-> yields, ex |-> TRUE]
    /\ UNCHANGED << tpVars, twoVars, kind, N, root, val, children, left,
                    right, prev, cur, ret, freed, orig, yields, forgotten,
                    hidden, atRest, steps >>

NextLock ==
    \/ LockNew
    \/ LockStep
    \/ LockEnd

SpecLock == InitLock /\ [][NextLock]_vars

\* C26: run side by side on the same tree with the same RETURN_ON_VISIT in
\* 0 .. 2, the binary NodeIter and the N-ary NodeIter of arity 2 agree after
\* every loop iteration: the same prev and cur, in every node the left slot
\* equal to slot 0 and the right slot to slot 1, tag included, and the same
\* nodes yielded.
C26_BinaryIsArityTwo ==
    kind = "both" =>
        /\ pc # "panic"
        /\ prev = iter2.prev /\ cur = iter2.cur
        /\ \A x \in Nodes : left[x] = children[x][0] /\ right[x] = children[x][1]
        /\ yields = yields2

\* Both walks stand in the right child of the root, after the left one,
\* with both slots of the root converted.
C26_Witness ==
    /\ kind = "both" /\ pc = "lock" /\ ret = 1
    /\ Cardinality(Nodes) = 3
    /\ cur # null /\ cur = orig[root][1] /\ iter2.cur = cur
    /\ is_seen(left[root]) /\ is_seen(right[root])
    /\ as_untagged(right[root]) = orig[root][0] /\ orig[root][0] # null
    /\ Len(yields) = 2 /\ Len(yields2) = 2

\* C27: once next has returned None, N-ary or binary, cur is null, so that
\* every later call of next returns None again, and such a call changes
\* neither prev and cur nor any slot of the tree, and yields nothing.
C27_ExhaustedStaysExhausted ==
    [][(kind \in {"array", "binary"} /\ pc = "idle" /\ exhausted) =>
          /\ cur = null
          /\ pc' \in {"idle", "next", "panic"} =>
                /\ pc' = "idle" /\ exhausted'
                /\ UNCHANGED << prev, cur, children, left, right, val,
                                yields, steps >>]_vars

\* A binary in-order iterator has returned None on a tree of two nodes.
C27_Witness ==
    /\ kind = "binary" /\ pc = "idle" /\ exhausted /\ ret = 1
    /\ atRest /\ Cardinality(Nodes) = 2
    /\ cur = null /\ Len(yields) = 2

\* C28: with N = 0 a tree of one node is walked in a single loop iteration,
\* the ascent shortcut for k = 0: no slot exists or is written, cur becomes
\* the old prev, null, and prev the node.  The pre-order iterator yields the
\* value of the node in that iteration and returns None on the next call,
\* and Drop for Tree frees the node once.
C28_ArityZero ==
    (kind = "array" /\ N = 0 /\ root # null) =>
        /\ Nodes = {root} /\ children[root] = << >>
        /\ pc \in {"idle", "next", "destroy"} =>
              \/ steps = 0 /\ cur = root /\ prev = null /\ yields = << >>
              \/ steps = 1 /\ cur = null /\ prev = root /\ yields = << root >>
        /\ Exhausted =>
              /\ steps = 1 /\ yields = << root >>
              /\ Values(yields) = << val[root] >>
        /\ pc = "destroy" => freed = yields
        /\ pc = "dropped" => freed = << root >>
        /\ pc \notin {"ub", "panic"}

\* A node without slots, walked to None by an iterator and then freed by
\* Drop for Tree.
C28_Witness ==
    /\ kind = "array" /\ N = 0 /\ root # null
    /\ pc = "dropped" /\ freed = << root >>
    /\ iters >= 1 /\ lastRun.ex /\ lastRun.out = << root >>

====
